---- MODULE Spec2Model ----
(***************************************************************************)
(* Model of visual_playground.ipynb: a fixed two-moons sample set, a model *)
(* factory (create_model), a trainer (model.fit), a boundary renderer      *)
(* (plot_decision_boundary) and the ipywidgets controller that re-runs the *)
(* pipeline interactive_nn on every widget change.                         *)
(*                                                                         *)
(* Number representation.  Feature coordinates are fixed-point integers in *)
(* hundredths (0.02 is 2, 0.5 is 50).  The learning rate 10^x of the       *)
(* FloatLogSlider is represented by its exponent x in tenths (1e-4 is -40, *)
(* 0.01 is -20, 1e-1 is -10).                                              *)
(***************************************************************************)
EXTENDS Integers, Sequences, FiniteSets, TLC

VARIABLES
    X,          \* sample features, a sequence of <<feature1, feature2>>
    y,          \* sample labels, a sequence of 0/1
    widgets,    \* kernel-side values of the four widgets
    queue,      \* widget-change messages sent by the front end, not yet handled
    changes,    \* number of widget changes the user has made so far
    pc,         \* position of the kernel inside the cell / the callback
    first,      \* TRUE while the call made by interactive_output itself runs
    kwargs,     \* arguments of the running interactive_nn call
    model,      \* local variable model of interactive_nn
    history,    \* local variable history of interactive_nn
    fig,        \* the pyplot figure under construction
    pending,    \* a clear_output(wait=True) waits for the next output
    out,        \* what the Output widget holds
    shown,      \* display(ui, out) has been executed
    stages,     \* pipeline stages completed by the running callback, in order
    calls,      \* number of times the observer has called interactive_nn
    finished,   \* number of those calls that are over
    faults,     \* number of those calls that ended in an exception
    runs        \* log: one record per call that is over (the last two)

vars == <<X, y, widgets, queue, changes, pc, first, kwargs, model, history,
          fig, pending, out, shown, stages, calls, finished, faults, runs>>

----------------------------------------------------------------------------
(* Bounds of the model *)

\* the user makes at most this many widget changes
MaxChanges == 2
\* SpecFault: at most this many library calls raise
MaxFaults == 1
\* SpecGrid: sample sets of 1..MaxLen points
MaxLen == 2
\* SpecGrid: feature coordinates are drawn from -MaxCoord..MaxCoord (hundredths)
MaxCoord == 1

(* Program constants *)

N_SAMPLES == 500
NOISE == 20
RANDOM_STATE == 42
h == 2
MARGIN == 50
INPUT_DIM == 2
NEURONS_INIT == 4
NEURONS_MIN == 2
NEURONS_MAX == 20
LR_INIT == -20
LR_MIN == -40
LR_MAX == -10
EPOCHS_INIT == 100
EPOCHS_MIN == 50
EPOCHS_MAX == 500
EPOCHS_STEP == 50

ActivationOptions == <<"relu", "tanh", "sigmoid">>
ACTIVATION_INIT == "relu"

----------------------------------------------------------------------------
(* Helpers *)

Range(s) == {s[i] : i \in DOMAIN s}

SetMin(S) == CHOOSE m \in S : \A e \in S : m <= e

SetMax(S) == 0 - SetMin({0 - e : e \in S})

\* ceil(a / b) for b > 0
CeilDiv(a, b) == -((-a) \div b)

\* numpy column X[:, c]
Column(Xs, c) == {Xs[i][c] : i \in DOMAIN Xs}

----------------------------------------------------------------------------
(* Dataset: make_moons(n_samples, noise, random_state) *)

\* 100 * sin(pi * a / b) for 0 <= a <= b (Bhaskara's rational approximation)
Sin100(a, b) ==
    IF b = 0 THEN 0
    ELSE (1600 * a * (b - a)) \div (5 * b * b - 4 * a * (b - a))

\* 100 * cos(pi * a / b) for 0 <= a <= b
Cos100(a, b) ==
    IF b = 0 THEN 100
    ELSE IF 2 * a <= b THEN Sin100(2 * a + b, 2 * b)
    ELSE -Sin100(2 * a - b, 2 * b)

\* the noise added to coordinate c of sample i: a fixed function of the seed
Noise100(i, c, noise, seed) ==
    ((i * 7919 + c * 104729 + seed * 1299709) % (4 * noise + 1)) - 2 * noise

\* position of sample i after the shuffle: a fixed permutation for the seed
ShuffleIndex(i, n, seed) == ((7 * (i - 1) + seed) % n) + 1

\* the i-th point (1-based) on the two half circles, before shuffle and noise
MoonPoint(i, n) ==
    LET n_out == n \div 2
        n_in  == n - n_out
    IN  IF i <= n_out
        THEN <<Cos100(i - 1, n_out - 1), Sin100(i - 1, n_out - 1)>>
        ELSE <<100 - Cos100(i - n_out - 1, n_in - 1),
               100 - Sin100(i - n_out - 1, n_in - 1) - 50>>

MoonLabel(i, n) == IF i <= n \div 2 THEN 0 ELSE 1

make_moons(n, noise, seed) ==
    LET src(j) == CHOOSE i \in 1..n : ShuffleIndex(i, n, seed) = j
    IN  [X |-> [j \in 1..n |->
                  <<MoonPoint(src(j), n)[1] + Noise100(j, 1, noise, seed),
                    MoonPoint(src(j), n)[2] + Noise100(j, 2, noise, seed)>>],
         y |-> [j \in 1..n |-> MoonLabel(src(j), n)]]

Dataset == make_moons(N_SAMPLES, NOISE, RANDOM_STATE)

----------------------------------------------------------------------------
(* Widgets (cell "Widgets & Display") *)

\* the values an IntSlider(min, max, step) can take
SliderValues(min, max, step) == {min + k * step : k \in 0..((max - min) \div step)}

\* the values a FloatLogSlider(base=10, min, max) can take: exponents, in tenths
LogSliderValues(min, max) == min..max

\* faulty variant: the slider is declared with min=0
neurons_slider_from0 == [value |-> NEURONS_INIT,
                         values |-> SliderValues(0, NEURONS_MAX, 1)]

neurons_slider == [value |-> NEURONS_INIT,
                   values |-> SliderValues(NEURONS_MIN, NEURONS_MAX, 1)]

activation_dropdown == [value |-> ACTIVATION_INIT,
                        values |-> Range(ActivationOptions)]

lr_slider == [value |-> LR_INIT, values |-> LogSliderValues(LR_MIN, LR_MAX)]

epochs_slider == [value |-> EPOCHS_INIT,
                  values |-> SliderValues(EPOCHS_MIN, EPOCHS_MAX, EPOCHS_STEP)]

\* the controls dictionary handed to interactive_output
Controls == [neurons    |-> neurons_slider,
             activation |-> activation_dropdown,
             lr         |-> lr_slider,
             epochs     |-> epochs_slider]

WidgetNames == DOMAIN Controls

\* what the front end shows for widget w: the last value the user set
UiValue(w) ==
    LET mine == SelectSeq(queue, LAMBDA m : m.widget = w)
    IN  IF mine = <<>> THEN widgets[w] ELSE mine[Len(mine)].value

\* the values the user is modelled to pick: both ends of the widget's range and
\* its initial value; every option of the dropdown
Tried(w) ==
    IF w = "activation" THEN Controls[w].values
    ELSE {SetMin(Controls[w].values), Controls[w].value, SetMax(Controls[w].values)}

----------------------------------------------------------------------------
(* Model factory, trainer, renderer *)

NoModel == [kind |-> "none"]
NoHistory == [kind |-> "none"]
NoFig == [kind |-> "none"]
NoArgs == [kind |-> "none"]

\* activation names the Dense layer accepts
KerasActivations == {"relu", "tanh", "sigmoid", "linear", "softmax", "elu",
                     "selu", "softplus", "softsign", "exponential"}

Raised(error, where) == [kind |-> "raise", error |-> error, where |-> where]

\* faulty variant: the optimizer is built without learning_rate=lr (Adam's default, 1e-3)
create_model_default_lr(neurons, activation, lr) ==
    [kind      |-> "model",
     layers    |-> <<[type |-> "Dense", units |-> neurons,
                      activation |-> activation, input_shape |-> INPUT_DIM],
                     [type |-> "Dense", units |-> 1,
                      activation |-> "sigmoid", input_shape |-> neurons]>>,
     optimizer |-> [type |-> "Adam", learning_rate |-> -30],
     loss      |-> "binary_crossentropy",
     metrics   |-> <<"accuracy">>,
     weights   |-> [epochs_trained |-> 0]]

\* create_model(neurons, activation, lr).  The values of the weights are not
\* represented (the initialisers draw them at random), only the number of
\* epochs they have been trained for: none for a new model.
create_model(neurons, activation, lr) ==
    IF neurons < 1 \/ activation \notin KerasActivations
    THEN Raised("ValueError", "create_model")
    ELSE [kind      |-> "model",
          layers    |-> <<[type |-> "Dense", units |-> neurons,
                           activation |-> activation, input_shape |-> INPUT_DIM],
                          [type |-> "Dense", units |-> 1,
                           activation |-> "sigmoid", input_shape |-> neurons]>>,
          optimizer |-> [type |-> "Adam", learning_rate |-> lr],
          loss      |-> "binary_crossentropy",
          metrics   |-> <<"accuracy">>,
          weights   |-> [epochs_trained |-> 0]]

\* faulty variant: training stops one epoch early
fitShort(m, Xs, ys, epochs) ==
    [model   |-> [m EXCEPT !.weights.epochs_trained = @ + epochs - 1],
     history |-> [kind |-> "history",
                  loss |-> [k \in 1..(epochs - 1) |-> m.weights.epochs_trained + k]]]

\* model.fit(Xs, ys, epochs=epochs, verbose=0): trains m in place, one loss
\* value per epoch.  A loss value is represented by the number of epochs the
\* weights have been trained for when it is measured.
fit(m, Xs, ys, epochs) ==
    [model   |-> [m EXCEPT !.weights.epochs_trained = @ + epochs],
     history |-> [kind |-> "history",
                  loss |-> [k \in 1..epochs |-> m.weights.epochs_trained + k]]]

\* faulty variant: the grid includes its stop value (as np.linspace would)
ArangeInclusive(start, stop, step) ==
    LET n == IF stop >= start THEN ((stop - start) \div step) + 1 ELSE 0
    IN  [i \in 1..n |-> start + (i - 1) * step]

\* np.arange(start, stop, step): start + i*step for i < ceil((stop-start)/step)
Arange(start, stop, step) ==
    LET n == IF stop > start THEN CeilDiv(stop - start, step) ELSE 0
    IN  [i \in 1..n |-> start + (i - 1) * step]

\* plot_decision_boundary(model, X, y, ax): what it draws on ax.  The mesh
\* grid is the product of the two axis vectors xx and yy; Z is the class map
\* of model m's predictions (thresholded at 0.5) over that mesh.
plot_decision_boundary(m, Xs, ys) ==
    LET x_min == SetMin(Column(Xs, 1)) - MARGIN
        x_max == SetMax(Column(Xs, 1)) + MARGIN
        y_min == SetMin(Column(Xs, 2)) - MARGIN
        y_max == SetMax(Column(Xs, 2)) + MARGIN
        xx    == Arange(x_min, x_max, h)
        yy    == Arange(y_min, y_max, h)
    IN  [xx      |-> xx,
         yy      |-> yy,
         Z       |-> [of |-> m, threshold |-> 50, shape |-> <<Len(yy), Len(xx)>>],
         scatter |-> [points |-> Xs, c |-> ys],
         xlabel  |-> "Feature 1",
         ylabel  |-> "Feature 2"]

\* lines 132-140 of interactive_nn: the two-panel figure
Figure(m, hist, Xs, ys) ==
    [kind |-> "figure",
     axs0 |-> [title |-> "Decision Boundary",
               plot  |-> plot_decision_boundary(m, Xs, ys)],
     axs1 |-> [title |-> "Loss Curve", line |-> hist.loss,
               xlabel |-> "Epoch", ylabel |-> "Loss"]]

----------------------------------------------------------------------------
(* The Output widget and the callback's bookkeeping *)

\* an output item reaches the Output widget: a pending clear_output(wait=True)
\* replaces the old items by it, otherwise it is appended
Emit(item) == IF pending THEN <<item>> ELSE Append(out, item)

Traceback(e) == [kind |-> "traceback", error |-> e.error, where |-> e.where]

\* the callback is over: the cell goes on to display(ui, out) after the call
\* made by interactive_output, the kernel goes back to its message loop otherwise
Last2(s) == IF Len(s) <= 2 THEN s ELSE SubSeq(s, Len(s) - 1, Len(s))

Leave(outcome, figure) ==
    /\ runs' = Last2(Append(runs, [kwargs  |-> kwargs,
                                   outcome |-> outcome,
                                   stages  |-> stages',
                                   fig     |-> figure]))
    /\ finished' = finished + 1
    /\ faults' = IF outcome = "raised" THEN faults + 1 ELSE faults
    /\ pc' = IF first THEN "display" ELSE "idle"
    /\ kwargs' = NoArgs
    /\ model' = NoModel
    /\ history' = NoHistory
    /\ fig' = NoFig

\* faulty variant: the exception is swallowed without a trace in the Output widget
AbortSilent(e) ==
    /\ out' = out
    /\ pending' = FALSE
    /\ stages' = stages
    /\ Leave("raised", NoFig)
    /\ UNCHANGED <<X, y, widgets, queue, changes, first, shown, calls>>

\* an exception leaves interactive_nn: the Output widget's context manager
\* catches it, shows the traceback inside the widget and suppresses it
Abort(e) ==
    /\ out' = Emit(Traceback(e))
    /\ pending' = FALSE
    /\ stages' = stages
    /\ Leave("raised", NoFig)
    /\ UNCHANGED <<X, y, widgets, queue, changes, first, shown, calls>>

----------------------------------------------------------------------------
(* Initial state: the cells up to the widget constructors have run *)

Init ==
    /\ X = Dataset.X
    /\ y = Dataset.y
    /\ widgets = [w \in WidgetNames |-> Controls[w].value]
    /\ queue = <<>>
    /\ changes = 0
    /\ pc = "construct"
    /\ first = TRUE
    /\ kwargs = NoArgs
    /\ model = NoModel
    /\ history = NoHistory
    /\ fig = NoFig
    /\ pending = FALSE
    /\ out = <<>>
    /\ shown = FALSE
    /\ stages = <<>>
    /\ calls = 0
    /\ finished = 0
    /\ faults = 0
    /\ runs = <<>>

----------------------------------------------------------------------------
(* Actions *)

\* the observer of interactive_output: collect the widgets' values, enter the
\* Output widget, clear_output(wait=True), call interactive_nn
Observe(values) ==
    /\ kwargs' = values
    /\ pending' = TRUE
    /\ stages' = <<>>
    /\ calls' = calls + 1
    /\ pc' = "clear"

\* widgets.interactive_output(interactive_nn, {...}) calls the observer once
Construct ==
    /\ pc = "construct"
    /\ Observe(widgets)
    /\ UNCHANGED <<X, y, widgets, queue, changes, first, model, history, fig,
                   out, shown, finished, faults, runs>>

\* the user moves widget w to value v in the front end
UserChange(w, v) ==
    /\ shown
    /\ changes < MaxChanges
    /\ v \in Controls[w].values
    /\ v # UiValue(w)
    /\ queue' = Append(queue, [widget |-> w, value |-> v])
    /\ changes' = changes + 1
    /\ UNCHANGED <<X, y, widgets, pc, first, kwargs, model, history, fig,
                   pending, out, shown, stages, calls, finished, faults, runs>>

\* faulty variant: a widget message is handled at once, also while a callback runs
OnChangePreempt ==
    /\ pc \in {"idle", "clear", "create", "fit", "plot", "show"}
    /\ ~first
    /\ queue # <<>>
    /\ LET m == Head(queue)
       IN  /\ widgets' = [widgets EXCEPT ![m.widget] = m.value]
           /\ queue' = Tail(queue)
           /\ Observe(widgets')
    /\ UNCHANGED <<X, y, changes, first, model, history, fig, out, shown,
                   finished, faults, runs>>

\* the kernel, idle, takes the next widget message: the trait changes and the
\* observer runs with the values of all four widgets
OnChange ==
    /\ pc = "idle"
    /\ queue # <<>>
    /\ LET m == Head(queue)
       IN  /\ widgets' = [widgets EXCEPT ![m.widget] = m.value]
           /\ queue' = Tail(queue)
           /\ Observe(widgets')
    /\ UNCHANGED <<X, y, changes, first, model, history, fig, out, shown,
                   finished, faults, runs>>

\* faulty variant: clear_output() without wait=True empties the widget at once
ClearOutputNoWait ==
    /\ pc = "clear"
    /\ out' = <<>>
    /\ pending' = FALSE
    /\ pc' = "create"
    /\ UNCHANGED <<X, y, widgets, queue, changes, first, kwargs, model, history,
                   fig, shown, stages, calls, finished, faults, runs>>

\* interactive_nn line 1: clear_output(wait=True)
ClearOutput ==
    /\ pc = "clear"
    /\ pending' = TRUE
    /\ pc' = "create"
    /\ UNCHANGED <<X, y, widgets, queue, changes, first, kwargs, model, history,
                   fig, out, shown, stages, calls, finished, faults, runs>>

\* faulty variant: the model of the previous call is kept and trained further
CreateModelWarmStart ==
    /\ pc = "create"
    /\ model' = IF runs # <<>> /\ runs[Len(runs)].outcome = "returned"
                THEN runs[Len(runs)].fig.axs0.plot.Z.of
                ELSE create_model(kwargs.neurons, kwargs.activation, kwargs.lr)
    /\ stages' = Append(stages, "create_model")
    /\ pc' = "fit"
    /\ UNCHANGED <<X, y, widgets, queue, changes, first, kwargs, history, fig,
                   pending, out, shown, calls, finished, faults, runs>>

\* model = create_model(neurons, activation, lr)
CreateModel ==
    /\ pc = "create"
    /\ LET m == create_model(kwargs.neurons, kwargs.activation, kwargs.lr)
       IN  IF m.kind = "raise"
           THEN Abort(m)
           ELSE /\ model' = m
                /\ stages' = Append(stages, "create_model")
                /\ pc' = "fit"
                /\ UNCHANGED <<X, y, widgets, queue, changes, first, kwargs,
                               history, fig, pending, out, shown, calls,
                               finished, faults, runs>>

\* faulty variant: training centres the sample set in place
FitInPlace ==
    /\ pc = "fit"
    /\ LET r == fit(model, X, y, kwargs.epochs)
       IN  /\ model' = r.model
           /\ history' = r.history
    /\ X' = [i \in DOMAIN X |-> <<X[i][1] - SetMin(Column(X, 1)), X[i][2]>>]
    /\ stages' = Append(stages, "fit")
    /\ pc' = "plot"
    /\ UNCHANGED <<y, widgets, queue, changes, first, kwargs, fig, pending,
                   out, shown, calls, finished, faults, runs>>

\* history = model.fit(X, y, epochs=epochs, verbose=0)
Fit ==
    /\ pc = "fit"
    /\ LET r == fit(model, X, y, kwargs.epochs)
       IN  /\ model' = r.model
           /\ history' = r.history
    /\ stages' = Append(stages, "fit")
    /\ pc' = "plot"
    /\ UNCHANGED <<X, y, widgets, queue, changes, first, kwargs, fig, pending,
                   out, shown, calls, finished, faults, runs>>

\* faulty variant: rendering rescales the sample set in place
PlotInPlace ==
    /\ pc = "plot"
    /\ fig' = Figure(model, history, X, y)
    /\ X' = [i \in DOMAIN X |-> <<2 * X[i][1], 2 * X[i][2]>>]
    /\ stages' = Append(stages, "plot_decision_boundary")
    /\ pc' = "show"
    /\ UNCHANGED <<y, widgets, queue, changes, first, kwargs, model, history,
                   pending, out, shown, calls, finished, faults, runs>>

\* plt.subplots, plot_decision_boundary(model, X, y, axs[0]) and the loss
\* curve; history.history['loss'] does not exist when no epoch ran
Plot ==
    /\ pc = "plot"
    /\ IF Len(history.loss) = 0
       THEN Abort(Raised("KeyError", "interactive_nn"))
       ELSE /\ fig' = Figure(model, history, X, y)
            /\ stages' = Append(stages, "plot_decision_boundary")
            /\ pc' = "show"
            /\ UNCHANGED <<X, y, widgets, queue, changes, first, kwargs, model,
                           history, pending, out, shown, calls, finished,
                           faults, runs>>

\* plt.show() sends the finished figure to the Output widget; interactive_nn
\* returns
Show ==
    /\ pc = "show"
    /\ out' = Emit(fig)
    /\ pending' = FALSE
    /\ stages' = Append(stages, "show")
    /\ Leave("returned", fig)
    /\ UNCHANGED <<X, y, widgets, queue, changes, first, shown, calls>>

\* display(ui, out)
Display ==
    /\ pc = "display"
    /\ shown' = TRUE
    /\ first' = FALSE
    /\ pc' = "idle"
    /\ UNCHANGED <<X, y, widgets, queue, changes, kwargs, model, history, fig,
                   pending, out, stages, calls, finished, faults, runs>>

\* a library call of the running pipeline raises (out of memory, an interrupt)
LibraryRaise ==
    /\ pc \in {"create", "fit", "plot", "show"}
    /\ faults < MaxFaults
    /\ Abort(Raised("Exception", pc))

User == \E w \in WidgetNames : \E v \in Tried(w) : UserChange(w, v)

Next ==
    \/ Construct
    \/ User
    \/ OnChange
    \/ ClearOutput
    \/ CreateModel
    \/ Fit
    \/ Plot
    \/ Show
    \/ Display

Spec == Init /\ [][Next]_vars

\* the same program with library calls that may raise
NextFault == Next \/ LibraryRaise

SpecFault == Init /\ [][NextFault]_vars

----------------------------------------------------------------------------
(* The pipeline on an arbitrary small sample set *)

Coords == (0 - MaxCoord)..MaxCoord

SampleSets ==
    UNION {[1..n -> Coords \X Coords] : n \in 1..MaxLen}

InitGrid ==
    /\ X \in SampleSets
    /\ y = [i \in DOMAIN X |-> i % 2]
    /\ widgets = [w \in WidgetNames |-> Controls[w].value]
    /\ queue = <<>>
    /\ changes = 0
    /\ pc = "construct"
    /\ first = TRUE
    /\ kwargs = NoArgs
    /\ model = NoModel
    /\ history = NoHistory
    /\ fig = NoFig
    /\ pending = FALSE
    /\ out = <<>>
    /\ shown = FALSE
    /\ stages = <<>>
    /\ calls = 0
    /\ finished = 0
    /\ faults = 0
    /\ runs = <<>>

NextGrid ==
    \/ Construct
    \/ ClearOutput
    \/ CreateModel
    \/ Fit
    \/ Plot
    \/ Show
    \/ Display

SpecGrid == InitGrid /\ [][NextGrid]_vars

----------------------------------------------------------------------------
(* Vocabulary of the properties *)

\* the stages of one complete pipeline run, in order
Pipeline == <<"create_model", "fit", "plot_decision_boundary", "show">>

\* the kernel is inside a call of interactive_nn
Running == {"clear", "create", "fit", "plot", "show"}

\* the declared ranges of the four parameters
ValidArgs(k) ==
    /\ k.neurons \in 2..20
    /\ k.activation \in {"relu", "tanh", "sigmoid"}
    /\ k.lr \in -40..-10
    /\ k.epochs >= 50 /\ k.epochs <= 500 /\ k.epochs % 50 = 0

IsPrefix(s, t) == Len(s) <= Len(t) /\ s = SubSeq(t, 1, Len(s))

LastRun == runs[Len(runs)]

\* model m has the architecture and optimizer that configuration k asks for
ModelFor(m, k) ==
    /\ m.kind = "model"
    /\ Len(m.layers) = 2
    /\ m.layers[1].type = "Dense" /\ m.layers[1].units = k.neurons
    /\ m.layers[1].activation = k.activation /\ m.layers[1].input_shape = 2
    /\ m.layers[2].type = "Dense" /\ m.layers[2].units = 1
    /\ m.layers[2].activation = "sigmoid"
    /\ m.optimizer.type = "Adam" /\ m.optimizer.learning_rate = k.lr
    /\ m.loss = "binary_crossentropy"

\* f is a finished two-panel figure: a class map over a non-empty grid with
\* the sample points on it, and a non-empty loss curve
CompleteFigure(f) ==
    /\ f.kind = "figure"
    /\ Len(f.axs0.plot.xx) > 0 /\ Len(f.axs0.plot.yy) > 0
    /\ f.axs0.plot.Z.shape = <<Len(f.axs0.plot.yy), Len(f.axs0.plot.xx)>>
    /\ Len(f.axs0.plot.scatter.points) > 0
    /\ Len(f.axs1.line) > 0

\* f is the figure of a run with parameters k
FigureFor(f, k) ==
    /\ CompleteFigure(f)
    /\ ModelFor(f.axs0.plot.Z.of, k)
    /\ Len(f.axs1.line) = k.epochs

\* the number of calls of interactive_nn the widget changes account for
CallsDue == (IF pc = "construct" THEN 0 ELSE 1) + changes - Len(queue)

----------------------------------------------------------------------------
(* C1 *)

\* C1: every call of interactive_nn with parameters inside the declared ranges
\* returns without raising, and its loss sequence has exactly `epochs`
\* elements, one per epoch.
C1_LossPerEpoch ==
    /\ faults = 0
    /\ \A i \in DOMAIN runs :
         ValidArgs(runs[i].kwargs) =>
           /\ runs[i].outcome = "returned"
           /\ Len(runs[i].fig.axs1.line) = runs[i].kwargs.epochs
    /\ history.kind = "history" =>
         (ValidArgs(kwargs) => Len(history.loss) = kwargs.epochs)

C1_Witness ==
    \E i \in DOMAIN runs :
        /\ runs[i].outcome = "returned"
        /\ runs[i].kwargs.epochs = 500
        /\ Len(runs[i].fig.axs1.line) = 500

----------------------------------------------------------------------------
(* C2 *)

\* C2: a widget change makes the controller run create_model, fit and
\* plot_decision_boundary in that order, and the displayed figure is replaced
\* atomically: once the output is displayed it always holds exactly one
\* complete figure, the previous run's while a run is in progress and the new
\* run's as soon as it is over; when nothing is left to handle, the figure
\* shown is the one for the widgets' current values.
C2_AtomicReplace ==
    /\ IsPrefix(stages, Pipeline)
    /\ shown => Len(out) = 1 /\ CompleteFigure(out[1])
    /\ (pc \in Running /\ ~first) => runs # <<>> /\ out = <<LastRun.fig>>
    /\ (pc = "idle" /\ runs # <<>>) =>
          /\ LastRun.stages = Pipeline
          /\ out = <<LastRun.fig>>
          /\ FigureFor(LastRun.fig, LastRun.kwargs)
    /\ (pc = "idle" /\ queue = <<>>) =>
          /\ LastRun.kwargs = widgets
          /\ finished = changes + 1

C2_Witness ==
    /\ pc = "idle"
    /\ Len(runs) = 2
    /\ runs[1].fig # runs[2].fig
    /\ out = <<runs[2].fig>>

----------------------------------------------------------------------------
(* C3 *)

\* C3: at most one pipeline run is in progress; a widget change made during a
\* run is only queued: the run keeps the parameters it started with (they are
\* the kernel-side widget values, and the model under training is built from
\* them), every call that started is either the one in progress or has
\* returned after all four stages, and each change accounts for one call.
C3_OneRunAtATime ==
    /\ pc \in Running => kwargs = widgets
    /\ model.kind = "model" => ModelFor(model, kwargs)
    /\ finished = IF pc \in Running THEN calls - 1 ELSE calls
    /\ calls = CallsDue
    /\ \A i \in DOMAIN runs :
         /\ runs[i].outcome = "returned"
         /\ runs[i].stages = Pipeline
         /\ FigureFor(runs[i].fig, runs[i].kwargs)

C3_Witness ==
    /\ pc = "plot"
    /\ ~first
    /\ queue # <<>>
    /\ \E w \in WidgetNames : UiValue(w) # kwargs[w]

----------------------------------------------------------------------------
(* C4 *)

\* one axis of the grid as the claim states it: from lo - 0.5 to hi + 0.5
\* inclusive in steps of 0.02
AxisClosed(axis, lo, hi) ==
    /\ Len(axis) >= 1
    /\ axis[1] = lo - 50
    /\ axis[Len(axis)] = hi + 50
    /\ \A i \in 1..(Len(axis) - 1) : axis[i + 1] - axis[i] = 2

\* one axis of the grid as np.arange builds it: from lo - 0.5 in steps of
\* 0.02, ending less than one step before hi + 0.5, which it never reaches
AxisHalfOpen(axis, lo, hi) ==
    /\ Len(axis) >= 1
    /\ axis[1] = lo - 50
    /\ axis[Len(axis)] < hi + 50
    /\ hi + 50 <= axis[Len(axis)] + 2
    /\ \A i \in 1..(Len(axis) - 1) : axis[i + 1] - axis[i] = 2

----------------------------------------------------------------------------
(* C5 *)

\* C5: the sample set has 500 samples and is never mutated: in every state,
\* after any widget changes and pipeline runs, X and y are what make_moons
\* returned at startup.
C5_SampleSetImmutable ==
    /\ Len(X) = 500
    /\ Len(y) = 500
    /\ X = Dataset.X
    /\ y = Dataset.y

C5_Witness ==
    /\ finished >= 2
    /\ changes >= 1
    /\ pc = "idle"
    /\ X = Dataset.X

----------------------------------------------------------------------------
(* C6 *)

\* two parameter tuples differ in the activation kind only
OnlyActivationDiffers(k1, k2) ==
    /\ k1.activation # k2.activation
    /\ k1.neurons = k2.neurons
    /\ k1.lr = k2.lr
    /\ k1.epochs = k2.epochs

\* C6: two runs whose parameters differ only in the activation kind plot the
\* same sample set over the same grid.
C6_ActivationFrame ==
    \A i, j \in DOMAIN runs :
        (/\ runs[i].outcome = "returned"
         /\ runs[j].outcome = "returned"
         /\ OnlyActivationDiffers(runs[i].kwargs, runs[j].kwargs))
        => /\ runs[i].fig.axs0.plot.scatter = runs[j].fig.axs0.plot.scatter
           /\ runs[i].fig.axs0.plot.scatter.points = X
           /\ runs[i].fig.axs0.plot.xx = runs[j].fig.axs0.plot.xx
           /\ runs[i].fig.axs0.plot.yy = runs[j].fig.axs0.plot.yy

C6_Witness ==
    /\ Len(runs) = 2
    /\ runs[1].outcome = "returned"
    /\ runs[2].outcome = "returned"
    /\ OnlyActivationDiffers(runs[1].kwargs, runs[2].kwargs)
    /\ runs[1].fig.axs0.plot.Z # runs[2].fig.axs0.plot.Z

----------------------------------------------------------------------------
(* C7 *)

----------------------------------------------------------------------------
(* C8 *)

\* the architecture of a model: everything but its weights
Architecture(m) == [layers |-> m.layers, optimizer |-> m.optimizer, loss |-> m.loss]

\* C8: the model create_model returns is untrained and has one hidden dense
\* layer of `neurons` units with the given activation on 2 inputs, one sigmoid
\* output unit, an optimizer with learning rate `lr` and binary cross-entropy
\* loss; runs with the same (neurons, activation, lr) get the same
\* architecture, whatever their epoch counts.
C8_Architecture ==
    /\ pc = "fit" => /\ ModelFor(model, kwargs)
                     /\ model.weights.epochs_trained = 0
    /\ \A i, j \in DOMAIN runs :
         (/\ runs[i].outcome = "returned"
          /\ runs[j].outcome = "returned"
          /\ runs[i].kwargs.neurons = runs[j].kwargs.neurons
          /\ runs[i].kwargs.activation = runs[j].kwargs.activation
          /\ runs[i].kwargs.lr = runs[j].kwargs.lr)
         => /\ ModelFor(runs[i].fig.axs0.plot.Z.of, runs[j].kwargs)
            /\ Architecture(runs[i].fig.axs0.plot.Z.of)
                 = Architecture(runs[j].fig.axs0.plot.Z.of)

C8_Witness ==
    /\ Len(runs) = 2
    /\ runs[1].outcome = "returned"
    /\ runs[2].outcome = "returned"
    /\ runs[1].kwargs.epochs # runs[2].kwargs.epochs
    /\ runs[1].kwargs.neurons = runs[2].kwargs.neurons
    /\ runs[1].kwargs.activation = runs[2].kwargs.activation
    /\ runs[1].kwargs.lr = runs[2].kwargs.lr
    /\ runs[1].kwargs.lr # -30

----------------------------------------------------------------------------
(* C9 *)

\* what both statements of C9 share: a call that raised ran no later stage and
\* drew no figure, no call is made but the one each widget change accounts for
\* (nothing is retried), the controller is idle again after the exception, and
\* a call that returns after an earlier one raised is a normal complete run
\* whose figure is displayed.
C9_AbortsAndRecovers ==
    /\ \A i \in DOMAIN runs :
         runs[i].outcome = "raised" =>
           /\ runs[i].fig = NoFig
           /\ IsPrefix(runs[i].stages, Pipeline)
           /\ Len(runs[i].stages) < Len(Pipeline)
    /\ calls = CallsDue
    /\ finished = IF pc \in Running THEN calls - 1 ELSE calls
    /\ \A i \in DOMAIN runs :
         runs[i].outcome = "returned" =>
           /\ runs[i].stages = Pipeline
           /\ FigureFor(runs[i].fig, runs[i].kwargs)
           /\ (i = Len(runs) /\ pc \notin Running) => out = <<runs[i].fig>>

\* the last call raised and the kernel is out of the callback
JustRaised == runs # <<>> /\ LastRun.outcome = "raised" /\ pc \notin Running

\* C9 as claimed: after a library call raises, no later stage runs, nothing is
\* retried, the controller is idle again, a later change starts a normal run,
\* and the display is left showing the previous figure or a blank output.
C9_Original ==
    /\ C9_AbortsAndRecovers
    /\ JustRaised =>
         \/ out = <<>>
         \/ Len(out) = 1 /\ out[1].kind = "figure"

\* C9 as amended: after a library call raises, no later stage runs, nothing is
\* retried, the controller is idle again, a later change starts a normal run,
\* and the display is left showing the exception's traceback, which has
\* replaced the previous figure.
C9_TracebackShown ==
    /\ C9_AbortsAndRecovers
    /\ JustRaised =>
         /\ Len(out) = 1
         /\ out[1].kind = "traceback"

C9_Witness ==
    /\ Len(runs) = 2
    /\ runs[1].outcome = "raised"
    /\ runs[1].stages = <<"create_model", "fit">>
    /\ runs[2].outcome = "returned"
    /\ pc = "idle"
    /\ out = <<runs[2].fig>>

----------------------------------------------------------------------------
(* C10 *)

\* the figure a run with parameters k draws when it starts from a new model
FreshFigure(k) ==
    LET r == fit(create_model(k.neurons, k.activation, k.lr), X, y, k.epochs)
    IN  Figure(r.model, r.history, X, y)

\* C10: the model and its loss history live for one call only.  Training
\* always starts from a model that has not been trained, outside a call no
\* model and no history exist, the weights behind a drawn class map have been
\* trained for exactly the epochs of that run and its loss curve starts at the
\* first epoch, and the figure displayed when the kernel is idle is the one a
\* new model gives for the parameters of the latest run.
C10_Ephemeral ==
    /\ pc = "fit" => model.weights.epochs_trained = 0
    /\ pc \notin Running => model = NoModel /\ history = NoHistory
    /\ \A i \in DOMAIN runs :
         runs[i].outcome = "returned" =>
           /\ runs[i].fig.axs0.plot.Z.of.weights.epochs_trained = runs[i].kwargs.epochs
           /\ runs[i].fig.axs1.line = [k \in 1..runs[i].kwargs.epochs |-> k]
    /\ (pc = "idle" /\ runs # <<>> /\ LastRun.outcome = "returned") =>
         out = <<FreshFigure(LastRun.kwargs)>>

C10_Witness ==
    /\ pc = "idle"
    /\ finished = 3
    /\ runs[1].kwargs.epochs = 500
    /\ runs[2].kwargs.epochs = 50
    /\ out = <<runs[2].fig>>

====
